---- MODULE Spec2Model ----
(***************************************************************************)
(* Model of holodeck's HolodeckClient (src/src/holodeck/holodeckclient.py):*)
(* the registry of shared-memory blocks, the two named semaphores          *)
(* (SERVER = _semaphore1, CLIENT = _semaphore2), and the engine on the     *)
(* other side of the handshake.                                            *)
(***************************************************************************)
EXTENDS Integers, FiniteSets, Sequences, TLC

(* ---------------- bounds of the model ---------------- *)
MaxCount == 2          \* largest semaphore count explored
MaxSegs  == 2          \* number of shared-memory segments ever created
MaxSessCount == 1      \* largest semaphore count explored with several clients

(* ---------------- inputs ---------------- *)
Keys    == {"cmd", "state"}
Shapes  == {<<1>>, <<2>>}
Dtypes  == {"float32", "uint8"}
Formats == {<<s, d>> : s \in Shapes, d \in Dtypes} \ {<<(<<2>>), "uint8">>}
Vals    == {0, 1}

RECURSIVE Prod(_)
Prod(shape) == IF shape = << >> THEN 1 ELSE Head(shape) * Prod(Tail(shape))

ItemSize(dtype) == IF dtype = "float32" THEN 4 ELSE 1

INFINITE == -1         \* win32event.INFINITE (0xFFFFFFFF), the unbounded wait
None     == -1         \* posix_ipc's timeout of None, the unbounded wait

VARIABLES
    osname,             \* os.name: "nt" or "posix"
    should_timeout,     \* constructor argument
    timeout_supported,  \* whether the host's sem_timedwait exists (posix)
    semaphore1,         \* count of HOLODECK_SEMAPHORE_SERVER
    semaphore2,         \* count of HOLODECK_SEMAPHORE_CLIENT
    closed,             \* which of the client's semaphore handles are closed
    semNames,           \* named semaphore objects that exist in the OS
    memory,             \* self._memory: key -> Shmem
    segs,               \* live shared-memory segments
    nextSeg,            \* identity of the next segment created
    data,               \* contents of each segment
    pc,                 \* the caller's position: "ready" or "acquiring"
    turn,               \* handshake state: "ClientTurn" or "WaitingForPeer"
    tornDown,           \* unlink() has been called
    pcPeer,             \* the engine's position: "idle" or "turn"
    result,             \* operation and outcome of the last step
    sent,               \* buffers as they were at the last release
    reply,              \* {buffers as the engine left them}, {} while awaited
    osSems,             \* the host's named semaphores: name -> count, linked
    clients             \* the HolodeckClient objects of one host, by number

config  == <<osname, should_timeout, timeout_supported>>
sems    == <<semaphore1, semaphore2, closed, semNames>>
shm     == <<memory, segs, nextSeg>>
ghost   == <<sent, reply>>
sess    == <<osSems, clients>>
vars    == <<osname, should_timeout, timeout_supported, semaphore1, semaphore2,
             closed, semNames, memory, segs, nextSeg, data, pc, turn, tornDown,
             pcPeer, result, sent, reply, osSems, clients>>

Res(op, res, view, args) == [op |-> op, res |-> res, view |-> view, args |-> args]

(* self.timeout set to the bounded wait whatever should_timeout says *)
timeout_AlwaysBounded ==
    IF osname = "nt" THEN 1000 * 60 * 3 ELSE 1 * 60 * 3

(* self.timeout as set by __windows_init__ / __posix_init__ *)
timeout ==
    IF osname = "nt"
    THEN (IF should_timeout THEN 1000 * 60 * 3 ELSE INFINITE)
    ELSE (IF should_timeout THEN 1 * 60 * 3 ELSE None)

(* a bounded wait that the backend honours *)
TimeoutEffective ==
    /\ timeout \notin {INFINITE, None}
    /\ (osname = "nt" \/ timeout_supported)

(* several clients on one host: their numbers and their uuid arguments *)
Ids   == {1, 2}
Uuids == {<< >>, <<"a">>}

(* the malloc arguments tried with several clients: two layouts of one key *)
SessFormats == {<<(<<1>>), "float32">>, <<(<<2>>), "float32">>}

(* a client that has not been constructed *)
NoClient ==
    [st |-> "none", uuid |-> << >>, sem1 |-> << >>, sem2 |-> << >>,
     closed |-> {}, memory |-> << >>, turn |-> "ClientTurn"]

(* the buffers as seen through the registry: key -> contents *)
View == [k \in DOMAIN memory |-> data[memory[k].seg]]

Init ==
    /\ osname \in {"nt", "posix"}
    /\ should_timeout \in BOOLEAN
    /\ timeout_supported \in BOOLEAN
    /\ (osname = "nt" \/ ~should_timeout => timeout_supported)
    /\ semaphore1 = 0
    /\ semaphore2 = 0
    /\ closed = {}
    /\ semNames = {"SERVER", "CLIENT"}
    /\ memory = << >>
    /\ segs = {}
    /\ nextSeg = 1
    /\ data = [i \in 1..(MaxSegs + 1) |-> 0]
    /\ pc = "ready"
    /\ turn = "ClientTurn"
    /\ tornDown = FALSE
    /\ pcPeer = "idle"
    /\ result = Res("init", "ok", 0, << >>)
    /\ sent = << >>
    /\ reply = {}
    /\ osSems = << >>
    /\ clients = [i \in Ids |-> NoClient]

(* ---------------- Shmem ---------------- *)
(* Shmem(key, shape, dtype, uuid): a new segment sized shape x itemsize *)
Shmem(key, shape, dtype) ==
    [seg |-> nextSeg, key |-> key, shape |-> shape, dtype |-> dtype,
     size |-> Prod(shape) * ItemSize(dtype)]

(* Shmem.unlink(): the segment is removed *)
ShmemUnlink(live, s) == live \ {s}

(* ---------------- HolodeckClient.malloc ---------------- *)
(* shape compared by identity: a list passed in is never the stored one *)
NeedsAlloc_Identity(key, shape, dtype) ==
    \/ key \notin DOMAIN memory
    \/ memory[key].shape # shape
    \/ memory[key].shape = shape
    \/ memory[key].dtype # dtype

NeedsAlloc(key, shape, dtype) ==
    \/ key \notin DOMAIN memory
    \/ memory[key].shape # shape
    \/ memory[key].dtype # dtype

malloc(key, shape, dtype) ==
    /\ pc = "ready"
    /\ IF NeedsAlloc(key, shape, dtype)
       THEN /\ nextSeg <= MaxSegs
            /\ memory' = [k \in DOMAIN memory \cup {key} |->
                            IF k = key THEN Shmem(key, shape, dtype) ELSE memory[k]]
            /\ segs' = segs \cup {Shmem(key, shape, dtype)}
            /\ nextSeg' = nextSeg + 1
       ELSE UNCHANGED shm
    /\ result' = Res("malloc", "ok", memory'[key].seg, <<key, shape, dtype>>)
    /\ UNCHANGED <<config, sems, data, pc, turn, tornDown, pcPeer>>

Malloc == \E key \in Keys, f \in Formats : malloc(key, f[1], f[2])

(* the caller stores v through the array malloc returned for key *)
write(key, v) ==
    /\ pc = "ready"
    /\ key \in DOMAIN memory
    /\ data' = [data EXCEPT ![memory[key].seg] = v]
    /\ result' = Res("write", "ok", memory[key].seg, << >>)
    /\ UNCHANGED <<config, sems, shm, pc, turn, tornDown, pcPeer>>

(* ---------------- semaphore backends ---------------- *)
(* a posix_ipc.Semaphore whose handle was closed raises ExistentialError *)
HandleClosed(h) == osname = "posix" /\ h \in closed

(* a release that saturates at one, as a binary semaphore would *)
release_semaphore_binary(count) == IF count > 0 THEN count ELSE count + 1

(* a release whose signal is lost *)
release_semaphore_lost(count) == count

(* posix_release_semaphore / windows_release_semaphore on a count *)
release_semaphore(count) == count + 1

(* a wait that is satisfied takes one unit of the count *)
acquire_semaphore(count) == count - 1

(* ---------------- HolodeckClient.release ---------------- *)
(* release that signals _semaphore2, the caller's own semaphore *)
Release_WrongSemaphore ==
    /\ pc = "ready"
    /\ IF HandleClosed(2)
       THEN /\ result' = Res("release", "ExistentialError", 0, << >>)
            /\ UNCHANGED <<semaphore2, turn>>
       ELSE /\ semaphore2 < MaxCount
            /\ semaphore2' = release_semaphore(semaphore2)
            /\ turn' = "WaitingForPeer"
            /\ result' = Res("release", "ok", 0, << >>)
    /\ UNCHANGED <<config, semaphore1, closed, semNames, shm, data, pc, tornDown,
                   pcPeer>>

Release ==
    /\ pc = "ready"
    /\ IF HandleClosed(1)
       THEN /\ result' = Res("release", "ExistentialError", 0, << >>)
            /\ UNCHANGED <<semaphore1, turn>>
       ELSE /\ semaphore1 < MaxCount
            /\ semaphore1' = release_semaphore(semaphore1)
            /\ turn' = "WaitingForPeer"
            /\ result' = Res("release", "ok", 0, << >>)
    /\ UNCHANGED <<config, semaphore2, closed, semNames, shm, data, pc, tornDown,
                   pcPeer>>

(* ---------------- HolodeckClient.acquire ---------------- *)
(* the call: it raises on a closed handle, else it starts to wait *)
Acquire ==
    /\ pc = "ready"
    /\ IF HandleClosed(2)
       THEN /\ result' = Res("acquire", "ExistentialError", 0, << >>)
            /\ pc' = pc
       ELSE /\ result' = Res("acquire", "waiting", 0, << >>)
            /\ pc' = "acquiring"
    /\ UNCHANGED <<config, sems, shm, data, turn, tornDown, pcPeer>>

(* acquire that returns whether or not the wait was satisfied *)
AcquireReturn_NoWait ==
    /\ pc = "acquiring"
    /\ semaphore2' = IF semaphore2 > 0 THEN acquire_semaphore(semaphore2) ELSE semaphore2
    /\ pc' = "ready"
    /\ turn' = "ClientTurn"
    /\ result' = Res("acquire", "ok", 0, << >>)
    /\ UNCHANGED <<config, semaphore1, closed, semNames, shm, data, tornDown,
                   pcPeer>>

(* acquire that waits on _semaphore1, the engine's semaphore *)
AcquireReturn_WrongSemaphore ==
    /\ pc = "acquiring"
    /\ semaphore1 > 0
    /\ semaphore1' = acquire_semaphore(semaphore1)
    /\ pc' = "ready"
    /\ turn' = "ClientTurn"
    /\ result' = Res("acquire", "ok", 0, << >>)
    /\ UNCHANGED <<config, semaphore2, closed, semNames, shm, data, tornDown,
                   pcPeer>>

(* the wait is satisfied: the count is taken and the call returns *)
AcquireReturn ==
    /\ pc = "acquiring"
    /\ semaphore2 > 0
    /\ semaphore2' = acquire_semaphore(semaphore2)
    /\ pc' = "ready"
    /\ turn' = "ClientTurn"
    /\ result' = Res("acquire", "ok", 0, << >>)
    /\ UNCHANGED <<config, semaphore1, closed, semNames, shm, data, tornDown,
                   pcPeer>>

(* TimeoutError raised on the satisfied wait (the test of the wait's result inverted) *)
AcquireTimeout_Inverted ==
    /\ pc = "acquiring"
    /\ TimeoutEffective
    /\ semaphore2 > 0
    /\ semaphore2' = acquire_semaphore(semaphore2)
    /\ pc' = "ready"
    /\ result' = Res("acquire", "TimeoutError", 0, << >>)
    /\ UNCHANGED <<config, semaphore1, closed, semNames, shm, data, turn, tornDown,
                   pcPeer>>

(* a timeout that signals SERVER again before it raises *)
AcquireTimeout_Resignal ==
    /\ pc = "acquiring"
    /\ TimeoutEffective
    /\ semaphore2 = 0
    /\ semaphore1 < MaxCount
    /\ semaphore1' = release_semaphore(semaphore1)
    /\ pc' = "ready"
    /\ result' = Res("acquire", "TimeoutError", 0, << >>)
    /\ UNCHANGED <<config, semaphore2, closed, semNames, shm, data, turn, tornDown,
                   pcPeer>>

(* the bounded wait elapses with no signal: TimeoutError *)
AcquireTimeout ==
    /\ pc = "acquiring"
    /\ TimeoutEffective
    /\ semaphore2 = 0
    /\ pc' = "ready"
    /\ result' = Res("acquire", "TimeoutError", 0, << >>)
    /\ UNCHANGED <<config, sems, shm, data, turn, tornDown, pcPeer>>

(* ---------------- HolodeckClient.unlink ---------------- *)
Registered == {memory[k] : k \in DOMAIN memory}

RECURSIVE UnlinkAll(_, _)
UnlinkAll(live, todo) ==
    IF todo = {} THEN live
    ELSE LET s == CHOOSE x \in todo : TRUE
         IN  UnlinkAll(ShmemUnlink(live, s), todo \ {s})

Undo(c, n, m, l, r) == [closed |-> c, semNames |-> n, memory |-> m, segs |-> l, res |-> r]

windows_unlink == Undo(closed, semNames, memory, segs, "ok")

(* posix_unlink without the two close() calls *)
posix_unlink_NoClose ==
    IF "SERVER" \notin semNames
    THEN Undo(closed, semNames, memory, segs, "ExistentialError")
    ELSE IF "CLIENT" \notin semNames
    THEN Undo(closed, semNames \ {"SERVER"}, memory, segs, "ExistentialError")
    ELSE Undo(closed, semNames \ {"SERVER", "CLIENT"}, << >>,
              UnlinkAll(segs, Registered), "ok")

posix_unlink ==
    IF 1 \in closed
    THEN Undo(closed, semNames, memory, segs, "ExistentialError")
    ELSE IF 2 \in closed
    THEN Undo(closed \cup {1}, semNames, memory, segs, "ExistentialError")
    ELSE IF "SERVER" \notin semNames
    THEN Undo({1, 2}, semNames, memory, segs, "ExistentialError")
    ELSE IF "CLIENT" \notin semNames
    THEN Undo({1, 2}, semNames \ {"SERVER"}, memory, segs, "ExistentialError")
    ELSE Undo({1, 2}, semNames \ {"SERVER", "CLIENT"}, << >>,
              UnlinkAll(segs, Registered), "ok")

Unlink ==
    /\ pc = "ready"
    /\ LET u == IF osname = "nt" THEN windows_unlink ELSE posix_unlink
       IN  /\ closed' = u.closed
           /\ semNames' = u.semNames
           /\ memory' = u.memory
           /\ segs' = u.segs
           /\ result' = Res("unlink", u.res, 0, << >>)
    /\ tornDown' = TRUE
    /\ UNCHANGED <<config, semaphore1, semaphore2, nextSeg, data, pc, turn, pcPeer>>

(* ---------------- the engine ---------------- *)
PeerAcquire ==
    /\ pcPeer = "idle"
    /\ semaphore1 > 0
    /\ semaphore1' = semaphore1 - 1
    /\ pcPeer' = "turn"
    /\ result' = Res("peer_acquire", "ok", 0, << >>)
    /\ UNCHANGED <<config, semaphore2, closed, semNames, shm, data, pc, turn,
                   tornDown>>

PeerWrite ==
    /\ pcPeer = "turn"
    /\ \E key \in DOMAIN memory, v \in Vals :
          /\ data' = [data EXCEPT ![memory[key].seg] = v]
          /\ result' = Res("peer_write", "ok", memory[key].seg, << >>)
    /\ UNCHANGED <<config, sems, shm, pc, turn, tornDown, pcPeer>>

PeerRelease ==
    /\ pcPeer = "turn"
    /\ semaphore2 < MaxCount
    /\ semaphore2' = semaphore2 + 1
    /\ pcPeer' = "idle"
    /\ result' = Res("peer_release", "ok", 0, << >>)
    /\ UNCHANGED <<config, semaphore1, closed, semNames, shm, data, pc, turn,
                   tornDown>>

(* ---------------- any caller ---------------- *)
Next ==
    \/ Malloc /\ UNCHANGED <<ghost, sess>>
    \/ Release /\ UNCHANGED <<ghost, sess>>
    \/ Acquire /\ UNCHANGED <<ghost, sess>>
    \/ AcquireReturn /\ UNCHANGED <<ghost, sess>>
    \/ AcquireTimeout /\ UNCHANGED <<ghost, sess>>
    \/ Unlink /\ UNCHANGED <<ghost, sess>>
    \/ PeerAcquire /\ UNCHANGED <<ghost, sess>>
    \/ PeerRelease /\ UNCHANGED <<ghost, sess>>

Spec == Init /\ [][Next]_vars

(* ---------------- a caller that keeps to the handshake ---------------- *)
(* sent and reply record the buffers at each hand-over *)
ProtoMalloc  == turn = "ClientTurn" /\ Malloc /\ UNCHANGED <<ghost, sess>>
ProtoWrite   == turn = "ClientTurn" /\ (\E key \in Keys, v \in Vals : write(key, v))
                  /\ UNCHANGED <<ghost, sess>>
ProtoRelease == turn = "ClientTurn" /\ Release /\ sent' = View /\ reply' = {}
                  /\ UNCHANGED sess
ProtoAcquire == turn = "WaitingForPeer" /\ Acquire /\ UNCHANGED <<ghost, sess>>
ProtoReturn  == AcquireReturn /\ UNCHANGED <<ghost, sess>>
ProtoTimeout == AcquireTimeout /\ UNCHANGED <<ghost, sess>>
ProtoPeerAcquire == PeerAcquire /\ UNCHANGED <<ghost, sess>>
ProtoPeerWrite   == PeerWrite /\ UNCHANGED <<ghost, sess>>
ProtoPeerRelease == PeerRelease /\ reply' = {View} /\ UNCHANGED <<sent, sess>>

NextProto ==
    \/ ProtoMalloc
    \/ ProtoWrite
    \/ ProtoRelease
    \/ ProtoAcquire
    \/ ProtoReturn
    \/ ProtoTimeout
    \/ ProtoPeerAcquire
    \/ ProtoPeerWrite
    \/ ProtoPeerRelease

SpecProto == Init /\ [][NextProto]_vars

(* the engine runs its loop, and a waiter whose semaphore is signalled wakes *)
SpecProtoFair ==
    /\ SpecProto
    /\ WF_vars(ProtoPeerAcquire)
    /\ WF_vars(ProtoPeerRelease)
    /\ WF_vars(ProtoReturn)

(* ---------------- unlink, statement by statement ---------------- *)
(* buffers unlinked before the semaphores are closed and unlinked *)
unlink_order_BuffersFirst ==
    <<"unlink_memory", "close1", "close2", "unlink_sem1", "unlink_sem2">>

(* the statements of posix_unlink in the order of the source *)
unlink_order ==
    <<"close1", "close2", "unlink_sem1", "unlink_sem2", "unlink_memory">>

UnlinkPcs == {unlink_order[i] : i \in 1..Len(unlink_order)}

(* the statement after p, or the return to the caller *)
After(p) ==
    LET i == CHOOSE j \in 1..Len(unlink_order) : unlink_order[j] = p
    IN  IF i = Len(unlink_order) THEN "ready" ELSE unlink_order[i + 1]

Running(p) == Res("unlink", IF p = "ready" THEN "ok" ELSE "running", 0, << >>)
Raised     == Res("unlink", "ExistentialError", 0, << >>)

UnlinkCall ==
    /\ pc = "ready"
    /\ tornDown' = TRUE
    /\ IF osname = "nt"
       THEN pc' = pc /\ result' = Res("unlink", windows_unlink.res, 0, << >>)
       ELSE pc' = unlink_order[1] /\ result' = Running(unlink_order[1])
    /\ UNCHANGED <<config, sems, shm, data, turn, pcPeer>>

(* self._semaphore1.close() / self._semaphore2.close() *)
UnlinkClose(h) ==
    /\ pc = (IF h = 1 THEN "close1" ELSE "close2")
    /\ IF h \in closed
       THEN pc' = "ready" /\ result' = Raised /\ closed' = closed
       ELSE pc' = After(pc) /\ result' = Running(After(pc)) /\ closed' = closed \cup {h}
    /\ UNCHANGED <<config, semaphore1, semaphore2, semNames, shm, data, turn,
                   tornDown, pcPeer>>

(* posix_ipc.unlink_semaphore(name) *)
UnlinkSemaphore(h) ==
    LET name == IF h = 1 THEN "SERVER" ELSE "CLIENT"
    IN  /\ pc = (IF h = 1 THEN "unlink_sem1" ELSE "unlink_sem2")
        /\ IF name \notin semNames
           THEN pc' = "ready" /\ result' = Raised /\ semNames' = semNames
           ELSE pc' = After(pc) /\ result' = Running(After(pc))
                  /\ semNames' = semNames \ {name}
        /\ UNCHANGED <<config, semaphore1, semaphore2, closed, shm, data, turn,
                       tornDown, pcPeer>>

(* one round of the loop over self._memory, or its end *)
UnlinkMemory ==
    /\ pc = "unlink_memory"
    /\ IF memory = << >>
       THEN pc' = After(pc) /\ result' = Running(After(pc)) /\ UNCHANGED <<memory, segs>>
       ELSE \E key \in DOMAIN memory :
              /\ segs' = ShmemUnlink(segs, memory[key])
              /\ memory' = [k \in DOMAIN memory \ {key} |-> memory[k]]
              /\ pc' = pc
              /\ result' = Running(pc)
    /\ UNCHANGED <<config, sems, nextSeg, data, turn, tornDown, pcPeer>>

NextSteps ==
    \/ Malloc /\ UNCHANGED <<ghost, sess>>
    \/ Release /\ UNCHANGED <<ghost, sess>>
    \/ Acquire /\ UNCHANGED <<ghost, sess>>
    \/ AcquireReturn /\ UNCHANGED <<ghost, sess>>
    \/ AcquireTimeout /\ UNCHANGED <<ghost, sess>>
    \/ UnlinkCall /\ UNCHANGED <<ghost, sess>>
    \/ (\E h \in {1, 2} : UnlinkClose(h)) /\ UNCHANGED <<ghost, sess>>
    \/ (\E h \in {1, 2} : UnlinkSemaphore(h)) /\ UNCHANGED <<ghost, sess>>
    \/ UnlinkMemory /\ UNCHANGED <<ghost, sess>>
    \/ PeerAcquire /\ UNCHANGED <<ghost, sess>>
    \/ PeerRelease /\ UNCHANGED <<ghost, sess>>

SpecSteps == Init /\ [][NextSteps]_vars

(* ---------------- construction, and several sessions on one host -------- *)
(* every variable of the single, already constructed client *)
single ==
    <<should_timeout, timeout_supported, semaphore1, semaphore2, closed, semNames,
      memory, segs, nextSeg, data, pc, turn, tornDown, pcPeer, sent, reply>>

SRes(op, res, client, uuid, opened) ==
    [op |-> op, res |-> res, client |-> client, uuid |-> uuid, opened |-> opened]

(* a semaphore name that leaves the uuid out *)
SemName_NoUuid(which, uuid) == <<"HOLODECK_SEMAPHORE_", which>>

(* "/HOLODECK_SEMAPHORE_SERVER" + self._uuid, "/HOLODECK_SEMAPHORE_CLIENT" + ... *)
SemName(which, uuid) == <<"HOLODECK_SEMAPHORE_", which>> \o uuid

Exists(table, name) == name \in DOMAIN table /\ table[name].linked

Created(table, name) ==
    [n \in DOMAIN table \cup {name} |->
        IF n = name THEN [count |-> 0, linked |-> TRUE] ELSE table[n]]

(* an open with O_CREAT: a missing semaphore is created *)
OpenSemaphore_Create(table, name) ==
    [ok |-> TRUE,
     table |-> IF Exists(table, name) THEN table ELSE Created(table, name)]

(* posix_ipc.Semaphore(name) / win32event.OpenSemaphore(.., name): attach only *)
OpenSemaphore(table, name) ==
    [ok |-> Exists(table, name), table |-> table]

(* what a failed open raises *)
OpenError(family) == IF family = "windows" THEN "pywintypes.error" ELSE "ExistentialError"

(* a constructor that treats every host that is not nt as posix *)
platform_init_Fallthrough(name) ==
    IF name = "nt" THEN "windows" ELSE "posix"

(* the branch on os.name at the end of __init__ *)
platform_init(name) ==
    IF name = "nt" THEN "windows"
    ELSE IF name = "posix" THEN "posix"
    ELSE "unsupported"

InitSessions ==
    /\ osname \in {"nt", "posix", "java"}
    /\ should_timeout \in BOOLEAN
    /\ timeout_supported = TRUE
    /\ semaphore1 = 0
    /\ semaphore2 = 0
    /\ closed = {}
    /\ semNames = {"SERVER", "CLIENT"}
    /\ memory = << >>
    /\ segs = {}
    /\ nextSeg = 1
    /\ data = [i \in 1..(MaxSegs + 1) |-> 0]
    /\ pc = "ready"
    /\ turn = "ClientTurn"
    /\ tornDown = FALSE
    /\ pcPeer = "idle"
    /\ result = Res("init", "ok", 0, << >>)
    /\ sent = << >>
    /\ reply = {}
    /\ osSems = << >>
    /\ clients = [i \in Ids |-> NoClient]

(* HolodeckClient(uuid, should_timeout) *)
Construct(i, uuid) ==
    LET family == platform_init(osname)
        name1  == SemName("SERVER", uuid)
        name2  == SemName("CLIENT", uuid)
        o1     == OpenSemaphore(osSems, name1)
        o2     == OpenSemaphore(o1.table, name2)
    IN  /\ clients[i].st = "none"
        /\ IF family = "unsupported"
           THEN /\ result' = SRes("construct", "HolodeckException", i, uuid, 0)
                /\ UNCHANGED sess
           ELSE IF ~o1.ok
           THEN /\ result' = SRes("construct", OpenError(family), i, uuid, 0)
                /\ osSems' = o1.table
                /\ UNCHANGED clients
           ELSE IF ~o2.ok
           THEN /\ result' = SRes("construct", OpenError(family), i, uuid, 1)
                /\ osSems' = o2.table
                /\ UNCHANGED clients
           ELSE /\ result' = SRes("construct", "ok", i, uuid, 2)
                /\ osSems' = o2.table
                /\ clients' = [clients EXCEPT ![i] =
                       [st |-> "ready", uuid |-> uuid, sem1 |-> name1, sem2 |-> name2,
                        closed |-> {}, memory |-> << >>, turn |-> "ClientTurn"]]
        /\ UNCHANGED <<osname, single>>

Signal(table, name) ==
    [table EXCEPT ![name].count = release_semaphore(@)]

Wait(table, name) ==
    [table EXCEPT ![name].count = acquire_semaphore(@)]

(* client i: release() *)
SessRelease(i) ==
    LET c == clients[i]
    IN  /\ c.st = "ready"
        /\ IF 1 \in c.closed
           THEN /\ result' = SRes("release", "ExistentialError", i, c.uuid, 0)
                /\ UNCHANGED sess
           ELSE /\ osSems[c.sem1].count < MaxSessCount
                /\ osSems' = Signal(osSems, c.sem1)
                /\ clients' = [clients EXCEPT ![i].turn = "WaitingForPeer"]
                /\ result' = SRes("release", "ok", i, c.uuid, 0)
        /\ UNCHANGED <<osname, single>>

(* client i: acquire(), from the call to its return or its TimeoutError *)
SessAcquire(i) ==
    LET c == clients[i]
    IN  /\ c.st = "ready"
        /\ IF 2 \in c.closed
           THEN /\ result' = SRes("acquire", "ExistentialError", i, c.uuid, 0)
                /\ UNCHANGED sess
           ELSE IF osSems[c.sem2].count > 0
           THEN /\ osSems' = Wait(osSems, c.sem2)
                /\ clients' = [clients EXCEPT ![i].turn = "ClientTurn"]
                /\ result' = SRes("acquire", "ok", i, c.uuid, 0)
           ELSE /\ TimeoutEffective
                /\ result' = SRes("acquire", "TimeoutError", i, c.uuid, 0)
                /\ UNCHANGED sess
        /\ UNCHANGED <<osname, single>>

(* client i: malloc(key, shape, dtype) *)
SessMalloc(i, key, shape, dtype) ==
    LET c == clients[i]
        fresh == \/ key \notin DOMAIN c.memory
                 \/ c.memory[key].shape # shape
                 \/ c.memory[key].dtype # dtype
        block == [key |-> key, shape |-> shape, dtype |-> dtype, uuid |-> c.uuid]
    IN  /\ c.st = "ready"
        /\ clients' = [clients EXCEPT ![i].memory =
               IF fresh
               THEN [k \in DOMAIN c.memory \cup {key} |->
                        IF k = key THEN block ELSE c.memory[k]]
               ELSE c.memory]
        /\ result' = SRes("malloc", "ok", i, c.uuid, 0)
        /\ UNCHANGED <<osname, single, osSems>>

Unlinked(table, name) == [table EXCEPT ![name].linked = FALSE]

(* client i: unlink() *)
SessUnlink(i) ==
    LET c  == clients[i]
        t1 == Unlinked(osSems, c.sem1)
        t2 == Unlinked(t1, c.sem2)
        shut == [clients EXCEPT ![i].closed = {1, 2}]
    IN  /\ c.st = "ready"
        /\ IF osname = "nt"
           THEN /\ result' = SRes("unlink", "ok", i, c.uuid, 0)
                /\ UNCHANGED sess
           ELSE IF c.closed # {}
           THEN /\ result' = SRes("unlink", "ExistentialError", i, c.uuid, 0)
                /\ UNCHANGED sess
           ELSE IF ~Exists(osSems, c.sem1)
           THEN /\ result' = SRes("unlink", "ExistentialError", i, c.uuid, 0)
                /\ clients' = shut
                /\ UNCHANGED osSems
           ELSE IF ~Exists(t1, c.sem2)
           THEN /\ result' = SRes("unlink", "ExistentialError", i, c.uuid, 0)
                /\ clients' = shut
                /\ osSems' = t1
           ELSE /\ result' = SRes("unlink", "ok", i, c.uuid, 0)
                /\ clients' = [shut EXCEPT ![i].memory = << >>]
                /\ osSems' = t2
        /\ UNCHANGED <<osname, single>>

(* the engine of session uuid creates one of its two semaphores *)
EngineCreate(which, uuid) ==
    /\ SemName(which, uuid) \notin DOMAIN osSems
    /\ osSems' = Created(osSems, SemName(which, uuid))
    /\ result' = SRes("engine_create", "ok", 0, uuid, 0)
    /\ UNCHANGED <<osname, single, clients>>

(* the engine of session uuid takes its turn: waits on SERVER, signals CLIENT *)
EngineTurn(uuid) ==
    LET server == SemName("SERVER", uuid)
        client == SemName("CLIENT", uuid)
    IN  /\ server \in DOMAIN osSems
        /\ client \in DOMAIN osSems
        /\ osSems[server].count > 0
        /\ osSems[client].count < MaxSessCount
        /\ osSems' = Signal(Wait(osSems, server), client)
        /\ result' = SRes("engine_turn", "ok", 0, uuid, 0)
        /\ UNCHANGED <<osname, single, clients>>

NextSessions ==
    \/ \E i \in Ids, uuid \in Uuids : Construct(i, uuid)
    \/ \E i \in Ids : SessRelease(i)
    \/ \E i \in Ids : SessAcquire(i)
    \/ \E i \in Ids, f \in SessFormats : SessMalloc(i, "cmd", f[1], f[2])
    \/ \E i \in Ids : SessUnlink(i)
    \/ \E which \in {"SERVER", "CLIENT"}, uuid \in Uuids : EngineCreate(which, uuid)
    \/ \E uuid \in Uuids : EngineTurn(uuid)

SpecSessions == InitSessions /\ [][NextSessions]_vars

(* ======================= the claims ======================= *)

ClientInTurn == turn = "ClientTurn"
PeerInTurn   == pcPeer = "turn"

(* C1: with a caller that touches buffers only before release or after a
   successful acquire, and an engine that touches them only between its
   acquire of SERVER and its release of CLIENT, the two are never in their
   buffer-accessing turn at the same time. *)
C1_MutualExclusion == ~(ClientInTurn /\ PeerInTurn)

(* the engine holds the turn over an allocated buffer while the caller waits *)
C1_Witness ==
    /\ PeerInTurn
    /\ turn = "WaitingForPeer"
    /\ pc = "acquiring"
    /\ memory # << >>

(* C2: what the engine finds in the buffers after its acquire is exactly what
   the caller left there at release, and what the caller finds after its
   successful acquire is exactly what the engine left at its release of that
   same round. *)
C2_RoundTrip ==
    /\ result.op = "peer_acquire" => View = sent
    /\ (result.op = "acquire" /\ result.res = "ok") => reply = {View}

(* the caller sent cmd = 1 and got state = 1 back, cmd untouched *)
C2_Witness ==
    /\ result.op = "acquire"
    /\ result.res = "ok"
    /\ DOMAIN memory = {"cmd", "state"}
    /\ sent = [k \in {"cmd", "state"} |-> IF k = "cmd" THEN 1 ELSE 0]
    /\ View = [k \in {"cmd", "state"} |-> 1]

TimeoutStep == pc = "acquiring" /\ result'.op = "acquire" /\ result'.res = "TimeoutError"
ReturnStep  == pc = "acquiring" /\ result'.op = "acquire" /\ result'.res = "ok"

(* C3: an acquire that times out happens only under a bounded wait with no
   signal pending, leaves the turn state, both semaphore counts and the
   registry as they were and the caller free to call again; an acquire that
   returns takes exactly one signal from CLIENT. *)
C3_TimeoutRetryable ==
    [][ /\ TimeoutStep =>
            /\ should_timeout
            /\ semaphore2 = 0
            /\ pc' = "ready"
            /\ UNCHANGED <<turn, semaphore1, semaphore2, closed, semNames, memory, segs>>
        /\ ReturnStep =>
            /\ semaphore2 > 0
            /\ semaphore2' = semaphore2 - 1
            /\ semaphore1' = semaphore1
      ]_vars

(* a timed-out acquire has left the caller waiting for the engine *)
C3_Witness ==
    /\ result.op = "acquire"
    /\ result.res = "TimeoutError"
    /\ turn = "WaitingForPeer"
    /\ pc = "ready"
    /\ semaphore2 = 0

(* C4: a second teardown does no further unlink or close, reports no error,
   and leaves no semaphore name, registered buffer or segment of the session
   behind. *)
C4_TeardownIdempotent ==
    [][ (tornDown /\ result'.op = "unlink") =>
            /\ result'.res = "ok"
            /\ UNCHANGED <<closed, semNames, memory, segs>>
            /\ semNames' = {}
            /\ memory' = << >>
            /\ segs' = {}
      ]_vars

HandshakeStep == result'.op \in {"release", "acquire"}

(* C5: any release or acquire issued after teardown fails with StateError and
   changes neither semaphore count, and the turn state never changes again. *)
C5_NoHandshakeAfterTeardown ==
    [][ (tornDown /\ HandshakeStep) =>
            /\ result'.res = "StateError"
            /\ UNCHANGED <<semaphore1, semaphore2, turn>>
      ]_vars

(* C5 as amended: on the posix backend a release or acquire issued after
   teardown fails with the closed handle's ExistentialError and changes no
   semaphore count, turn state or caller position; on the nt backend unlink
   closed nothing and a release after it still signals SERVER; once torn down,
   always torn down. *)
C5_ClosedAfterTeardown ==
    [][ /\ (tornDown /\ osname = "posix" /\ HandshakeStep) =>
            /\ result'.res = "ExistentialError"
            /\ UNCHANGED <<semaphore1, semaphore2, turn, pc>>
        /\ (tornDown /\ osname = "nt" /\ result'.op = "release") =>
            /\ result'.res = "ok"
            /\ semaphore1' = semaphore1 + 1
        /\ tornDown => tornDown'
      ]_vars

(* a release after teardown on posix was refused with the count left alone *)
C5_Witness ==
    /\ tornDown
    /\ osname = "posix"
    /\ result.op = "release"
    /\ result.res = "ExistentialError"
    /\ semaphore1 = 1
    /\ turn = "WaitingForPeer"

OutOfOrderRelease == ~tornDown /\ turn = "WaitingForPeer" /\ result'.op = "release"
OutOfOrderAcquire == ~tornDown /\ turn = "ClientTurn" /\ pc = "ready" /\ result'.op = "acquire"

(* C6: a release issued in WaitingForPeer, or an acquire issued in ClientTurn,
   fails with StateError, changes no semaphore count and does not wait. *)
C6_OutOfOrderRejected ==
    [][ (OutOfOrderRelease \/ OutOfOrderAcquire) =>
            /\ result'.res = "StateError"
            /\ UNCHANGED <<semaphore1, semaphore2>>
            /\ pc' = "ready"
      ]_vars

(* C6 as amended: there is no check of the order of calls; before teardown a
   release issued in WaitingForPeer succeeds and increments SERVER again by
   exactly one, and an acquire issued in ClientTurn starts to wait on CLIENT
   like any other acquire. *)
C6_NoOrderCheck ==
    [][ /\ OutOfOrderRelease =>
            /\ result'.res = "ok"
            /\ semaphore1' = semaphore1 + 1
            /\ semaphore2' = semaphore2
            /\ turn' = "WaitingForPeer"
        /\ OutOfOrderAcquire =>
            /\ result'.res = "waiting"
            /\ pc' = "acquiring"
            /\ UNCHANGED <<semaphore1, semaphore2, turn>>
      ]_vars

(* two releases with no engine step between them: SERVER counts two *)
C6_Witness ==
    /\ ~tornDown
    /\ result.op = "release"
    /\ result.res = "ok"
    /\ semaphore1 = 2
    /\ semaphore2 = 0
    /\ pcPeer = "idle"
    /\ turn = "WaitingForPeer"

MallocStep(k) == result'.op = "malloc" /\ result'.args[1] = k

(* C7: a malloc for a registered key with another shape or another dtype
   unlinks the old segment, registers a new one sized for the new shape and
   dtype, and returns the new segment's view. *)
C7_ReallocUnlinksOld ==
    [][ \A k \in DOMAIN memory :
          ( /\ MallocStep(k)
            /\ (memory[k].shape # result'.args[2] \/ memory[k].dtype # result'.args[3]) )
          => /\ memory[k] \notin segs'
             /\ memory'[k] \in segs'
             /\ memory'[k].seg # memory[k].seg
             /\ memory'[k].shape = result'.args[2]
             /\ memory'[k].dtype = result'.args[3]
             /\ memory'[k].size = Prod(result'.args[2]) * ItemSize(result'.args[3])
             /\ result'.view = memory'[k].seg
      ]_vars

(* C8: a malloc with the shape and dtype of the block registered for its key
   returns the view of that same segment and creates no segment. *)
C8_IdempotentMalloc ==
    [][ \A k \in DOMAIN memory :
          ( /\ MallocStep(k)
            /\ memory[k].shape = result'.args[2]
            /\ memory[k].dtype = result'.args[3] )
          => /\ UNCHANGED <<memory, segs, nextSeg>>
             /\ result'.view = memory[k].seg
      ]_vars

(* cmd allocated, then state, then cmd asked for again after a release: the
   first segment is returned and no third one exists *)
C8_Witness ==
    /\ result.op = "malloc"
    /\ result.args[1] = "cmd"
    /\ result.view = 1
    /\ nextSeg = 3
    /\ DOMAIN memory = {"cmd", "state"}
    /\ turn = "WaitingForPeer"

(* C9: each key has at most one live segment, and every live segment is the
   one the registry records for its key. *)
C9_OneLiveSegmentPerKey ==
    /\ \A s, t \in segs : s.key = t.key => s = t
    /\ \A s \in segs : s.key \in DOMAIN memory /\ memory[s.key] = s

(* C10: right after teardown the registry is empty and no segment is live. *)
C10_TeardownReleasesAll ==
    result.op = "unlink" => (memory = << >> /\ segs = {})

(* C12: a posix teardown with buffers registered reports no error whatever
   fails in it, and still closes both handles, removes both semaphore names
   and unlinks and forgets every registered buffer. *)
C12_BestEffortTeardown ==
    [][ (result'.op = "unlink" /\ osname = "posix" /\ memory # << >>) =>
            /\ result'.res = "ok"
            /\ closed' = {1, 2}
            /\ semNames' = {}
            /\ memory' = << >>
            /\ Registered \cap segs' = {}
      ]_vars

ReleaseStep == result'.op = "release"

(* C17: every release increments SERVER by exactly one, touches CLIENT not at
   all and does not wait; every acquire that returns has decremented CLIENT by
   exactly one and touched SERVER not at all. *)
C17_ReleaseAlwaysSignals ==
    [][ /\ ReleaseStep =>
            /\ result'.res = "ok"
            /\ semaphore1' = semaphore1 + 1
            /\ semaphore2' = semaphore2
            /\ pc' = "ready"
        /\ ReturnStep =>
            /\ semaphore2' = semaphore2 - 1
            /\ semaphore1' = semaphore1
      ]_vars

(* C17 as amended: a release on an open handle (always on nt, on posix until
   unlink() has closed it) increments SERVER by exactly one, touches CLIENT
   not at all and does not wait; a release on a closed handle raises and
   changes neither count; every acquire that returns has decremented CLIENT by
   exactly one and touched SERVER not at all. *)
C17_ReleaseSignalsServer ==
    [][ /\ (ReleaseStep /\ ~HandleClosed(1)) =>
            /\ result'.res = "ok"
            /\ semaphore1' = semaphore1 + 1
            /\ semaphore2' = semaphore2
            /\ pc' = "ready"
        /\ (ReleaseStep /\ HandleClosed(1)) =>
            /\ result'.res = "ExistentialError"
            /\ UNCHANGED <<semaphore1, semaphore2>>
        /\ ReturnStep =>
            /\ semaphore2' = semaphore2 - 1
            /\ semaphore1' = semaphore1
      ]_vars

(* an acquire has returned on the engine's signal while releases are pending *)
C17_Witness ==
    /\ result.op = "acquire"
    /\ result.res = "ok"
    /\ semaphore1 = 1
    /\ semaphore2 = 0
    /\ pcPeer = "idle"

(* C18: with a caller and an engine that both alternate, each semaphore count
   is 0 or 1 and the two are never both 1, timeouts and retries included. *)
C18_SingleToken ==
    /\ semaphore1 \in {0, 1}
    /\ semaphore2 \in {0, 1}
    /\ ~(semaphore1 = 1 /\ semaphore2 = 1)

(* after a timeout the caller waits again and the engine's signal is pending *)
C18_Witness ==
    /\ TimeoutEffective
    /\ pc = "acquiring"
    /\ semaphore2 = 1
    /\ semaphore1 = 0
    /\ pcPeer = "idle"

(* C19: built with should_timeout false, no acquire ends in TimeoutError on
   either backend, and a wait ends only by a return that has taken a signal
   from CLIENT. *)
C19_UnboundedWait ==
    [][ ~should_timeout =>
          /\ result'.res # "TimeoutError"
          /\ (pc = "acquiring" /\ pc' # "acquiring") =>
                /\ result'.op = "acquire"
                /\ result'.res = "ok"
                /\ semaphore2 > 0
                /\ semaphore2' = semaphore2 - 1
      ]_vars

(* without a timeout the caller is blocked with no signal pending *)
C19_Witness ==
    /\ ~should_timeout
    /\ pc = "acquiring"
    /\ semaphore2 = 0
    /\ semaphore1 = 0
    /\ pcPeer = "turn"
    /\ turn = "WaitingForPeer"

Regained == pc = "ready" /\ turn = "ClientTurn"

(* C16: with a fair engine every acquire issued after a release eventually
   returns successfully: it ends, and it never ends otherwise than by a
   successful return. *)
C16_LockstepProgress ==
    /\ [][ (pc = "acquiring" /\ pc' # "acquiring") => result'.res = "ok" ]_vars
    /\ (pc = "acquiring") ~> Regained

(* C16 as amended: with a fair engine every acquire issued after a release
   eventually ends; under an unbounded wait it ends by returning successfully,
   under an effective bounded timeout it may end in TimeoutError instead; the
   steps alternate: the caller releases only when the engine is idle with no
   signal pending, the engine acquires only while the caller has handed over,
   and an acquire returns only after the engine has finished its turn. *)
C16_LockstepAlternation ==
    /\ (pc = "acquiring") ~> (pc = "ready")
    /\ (pc = "acquiring" /\ ~TimeoutEffective) ~> Regained
    /\ [][ /\ ReleaseStep => (pcPeer = "idle" /\ semaphore1 = 0 /\ semaphore2 = 0)
           /\ result'.op = "peer_acquire" => turn = "WaitingForPeer"
           /\ ReturnStep => (pcPeer = "idle" /\ semaphore1 = 0 /\ reply # {})
         ]_vars

(* a second round: the caller waits without timeout while the engine works on
   buffers it has answered before *)
C16_Witness ==
    /\ ~TimeoutEffective
    /\ pc = "acquiring"
    /\ pcPeer = "turn"
    /\ sent # << >>
    /\ \E k \in DOMAIN sent : sent[k] = 1

(* C11: teardown unlinks every registered buffer first and only then the two
   semaphores: no semaphore is closed or unlinked while a registered buffer is
   still live. *)
C11_BuffersBeforeSemaphores ==
    [][ (closed' # closed \/ semNames' # semNames) => Registered \cap segs = {} ]_vars

(* C11 as amended: posix teardown closes and unlinks the two semaphores first
   and only then unlinks the registered buffers: no buffer is unlinked or
   forgotten while a semaphore handle is open or a semaphore name exists, and
   each buffer that is unlinked is forgotten in the same step. *)
C11_SemaphoresBeforeBuffers ==
    [][ (segs' # segs /\ segs' \subseteq segs) \/ (DOMAIN memory' # DOMAIN memory
                                                   /\ DOMAIN memory' \subseteq DOMAIN memory)
          => /\ osname = "posix"
             /\ closed = {1, 2}
             /\ semNames = {}
             /\ \E key \in DOMAIN memory :
                   /\ DOMAIN memory' = DOMAIN memory \ {key}
                   /\ segs' = segs \ {memory[key]}
      ]_vars

(* both semaphores gone, one of two buffers unlinked, the other still to go *)
C11_Witness ==
    /\ pc = "unlink_memory"
    /\ closed = {1, 2}
    /\ semNames = {}
    /\ Cardinality(DOMAIN memory) = 1
    /\ nextSeg = 3
    /\ Cardinality(segs) = 1

(* ---- construction and sessions ---- *)
(* the errors a failed attach raises: the spec's InitializationError *)
InitializationError == {"ExistentialError", "pywintypes.error"}

SupportedOs == {"nt", "posix"}

(* the name a session's semaphore is expected to have: prefix, then the id *)
Prefixed(which, uuid) == <<"HOLODECK_SEMAPHORE_", which>> \o uuid

BothCreated(uuid) ==
    /\ Exists(osSems, Prefixed("SERVER", uuid))
    /\ Exists(osSems, Prefixed("CLIENT", uuid))

(* C13: on a supported host, constructing a client while the engine has not
   created both named semaphores of the session fails with an
   InitializationError and yields no client; a construction, failed or not,
   only attaches: the set of semaphore objects and their counts stay as they
   were. *)
C13_ConstructionNeedsSemaphores ==
    [][ result'.op = "construct"
          => /\ osSems' = osSems
             /\ (osname \in SupportedOs /\ ~BothCreated(result'.uuid))
                   => /\ result'.res \in InitializationError
                      /\ clients' = clients
                      /\ clients'[result'.client].st = "none"
             /\ (osname \in SupportedOs /\ BothCreated(result'.uuid))
                   => /\ result'.res = "ok"
                      /\ clients'[result'.client].st = "ready"
      ]_vars

(* a construction that found SERVER but not CLIENT, and failed *)
C13_Witness ==
    /\ result.op = "construct"
    /\ result.res \in InitializationError
    /\ result.opened = 1
    /\ Exists(osSems, Prefixed("SERVER", result.uuid))
    /\ Prefixed("CLIENT", result.uuid) \notin DOMAIN osSems
    /\ clients[result.client].st = "none"

Ready(i) == clients[i].st = "ready"

Apart(i, j) ==
    /\ i # j
    /\ Ready(i)
    /\ Ready(j)
    /\ clients[i].uuid # clients[j].uuid

SemsOf(i) == {clients[i].sem1, clients[i].sem2}

(* C14: each client's semaphore names are the fixed prefix followed by its own
   uuid; two clients with distinct uuids share no semaphore; and release,
   acquire, malloc and unlink by one of them leave the other's semaphore
   counts (and their names' existence), registry and turn state unchanged. *)
C14_SessionIsolation ==
    /\ [](\A i \in Ids : Ready(i) =>
              /\ clients[i].sem1 = Prefixed("SERVER", clients[i].uuid)
              /\ clients[i].sem2 = Prefixed("CLIENT", clients[i].uuid))
    /\ [](\A i, j \in Ids : Apart(i, j) => SemsOf(i) \cap SemsOf(j) = {})
    /\ [][ \A i, j \in Ids :
              ( /\ Apart(i, j)
                /\ result'.op \in {"release", "acquire", "malloc", "unlink"}
                /\ result'.client = i )
              => /\ clients'[j] = clients[j]
                 /\ \A n \in SemsOf(j) : osSems'[n] = osSems[n]
       ]_vars

(* two sessions side by side: one has released and torn down nothing of the
   other, whose count, registry and turn are as it left them *)
C14_Witness ==
    /\ Apart(1, 2)
    /\ result.op = "release"
    /\ result.res = "ok"
    /\ result.client = 1
    /\ osSems[clients[1].sem1].count = 1
    /\ osSems[clients[2].sem1].count = 0
    /\ clients[1].turn = "WaitingForPeer"
    /\ clients[2].turn = "ClientTurn"
    /\ clients[2].memory # << >>

(* C15: on a host whose os.name is neither nt nor posix every construction
   fails with HolodeckException (unsupported os) before any semaphore is
   opened, and no client exists on which acquire, release or malloc could be
   called. *)
C15_UnsupportedPlatform ==
    /\ [][ (result'.op = "construct" /\ osname \notin SupportedOs)
              => /\ result'.res = "HolodeckException"
                 /\ result'.opened = 0
                 /\ osSems' = osSems
                 /\ clients' = clients
       ]_vars
    /\ [](osname \notin SupportedOs => \A i \in Ids : ~Ready(i))
    /\ [][ result'.op \in {"release", "acquire", "malloc", "unlink"}
              => Ready(result'.client) ]_vars

(* the session's semaphores were there; the construction failed all the same *)
C15_Witness ==
    /\ osname \notin SupportedOs
    /\ result.op = "construct"
    /\ result.res = "HolodeckException"
    /\ BothCreated(result.uuid)
    /\ \A i \in Ids : ~Ready(i)

====
